---- MODULE Spec2Model ----
(***************************************************************************)
(* Checkout / order transaction core of the UCP REST sample               *)
(* (rest/nodejs/src/data/db.ts, data/transactions.ts, api/order.ts).      *)
(*                                                                         *)
(* The persistent state is the five tables created by initDbs.  Every     *)
(* exported data function runs exactly one SQL statement, so one call is  *)
(* one atomic step of the storage; concurrency is the interleaving of the *)
(* statements of overlapping requests.                                     *)
(*                                                                         *)
(* The data layer (ledger, session store, orders, audit log, idempotency  *)
(* records) follows the source.  The request handling built on it (the    *)
(* Idempotency Gate protocol, the session state machine and the Order     *)
(* Finalizer) follows sections 4.2 to 4.4 of the design specification.    *)
(***************************************************************************)
EXTENDS Integers, Sequences, FiniteSets, TLC

\* ------------------------------------------------------------------ bounds
MaxStock == 2
MaxQty == 1
MaxCalls == 3
MaxStarts == 3
MaxOrderReqs == 2

\* ------------------------------------------------------------- value sets
Products == {"P1", "P2"}
Callers == {"a", "b"}
Qtys == (0 - 1) .. MaxQty
\* a table is a function from the primary keys that have a row to the row;
\* a lookup yields <<v>> when it finds v and <<>> for undefined
Undefined == <<>>
Some(v) == <<v>>
HasRow(table, k) == k \in DOMAIN table
NoCall == [op |-> "none"]

\* checkout requests
Catalog == {"P1", "P2", "P3"}
Reqs == {"r1", "r2"}
CheckoutIds == {"C1"}
Keys == {"k1"}
NoKey == "none"
ItemChoices ==
  { <<[p |-> "P1", q |-> 1], [p |-> "P2", q |-> 1], [p |-> "P3", q |-> 1]>>,
    <<>> }
UpdateBodies == {[items |-> i] : i \in ItemChoices}
CompleteBodies == {[payment |-> "tok"]}

\* OrderService requests
Handlers == {"h1", "h2"}
OrderCheckouts == {"C1", "C2"}

VARIABLES
  inventory,        \* table inventory(product_id PK, quantity)
  checkouts,        \* table checkouts(id PK, status, data)
  orders,           \* table orders(id PK, data)
  idempotency_keys, \* table idempotency_keys(key PK, request_hash, ...)
  request_logs,     \* table request_logs, in insertion order
  call,             \* the statement each direct ledger caller has in flight
  ledgerLog,        \* the ledger statements in the order the storage ran them
  inv0,             \* the inventory the run started from
  req,              \* the checkout request each worker is handling
  starts,           \* number of checkout requests received so far
  commits,          \* per idempotency key, how often its mutation was applied
  osv,              \* the request each OrderService handler is serving
  lastCall,         \* the latest direct call of a store function and its result
  supplied          \* per table and key, the arguments of the latest save

storeVars == <<checkouts, orders, idempotency_keys, request_logs>>
ledgerVars == <<call, ledgerLog>>
reqVars == <<req, starts, commits>>
auxVars == <<osv, lastCall, supplied>>
vars == <<inventory, checkouts, orders, idempotency_keys, request_logs,
          call, ledgerLog, inv0, req, starts, commits,
          osv, lastCall, supplied>>

\* ------------------------------------------------------- Inventory Ledger
\* SELECT quantity FROM inventory WHERE product_id = ?
\* (slip: a product without a row reads as quantity 0)
getInventoryZero(inv, productId) ==
  IF HasRow(inv, productId) THEN Some(inv[productId]) ELSE Some(0)

getInventory(inv, productId) ==
  IF HasRow(inv, productId) THEN Some(inv[productId]) ELSE Undefined

\* (slip: WHERE product_id = ? only)
ReserveMatchesNoGuard(inv, productId, quantity) ==
  HasRow(inv, productId)

\* WHERE product_id = ? AND quantity >= ?
ReserveMatches(inv, productId, quantity) ==
  HasRow(inv, productId) /\ inv[productId] >= quantity

\* (slip: the decrement runs for every row of the product, read-then-write
\* style, while the result still tells whether the stock sufficed)
reserveStockRowsUnguarded(inv, productId, quantity) ==
  IF HasRow(inv, productId)
    THEN [inv EXCEPT ![productId] = @ - quantity]
    ELSE inv

\* UPDATE inventory SET quantity = quantity - ? WHERE ...; the rows the
\* statement leaves behind
reserveStockRows(inv, productId, quantity) ==
  IF ReserveMatches(inv, productId, quantity)
    THEN [inv EXCEPT ![productId] = @ - quantity]
    ELSE inv

\* (slip: return rs.rowsAffected >= 0)
reserveStockResultAlways(inv, productId, quantity) ==
  TRUE

\* return rs.rowsAffected > 0
reserveStockResult(inv, productId, quantity) ==
  ReserveMatches(inv, productId, quantity)

\* (slip: SET quantity = quantity - ?)
releaseStockRowsSubtract(inv, productId, quantity) ==
  IF HasRow(inv, productId)
    THEN [inv EXCEPT ![productId] = @ - quantity]
    ELSE inv

\* (slip: SET quantity = quantity + 1)
releaseStockRowsOne(inv, productId, quantity) ==
  IF HasRow(inv, productId)
    THEN [inv EXCEPT ![productId] = @ + 1]
    ELSE inv

\* (slip: SET quantity = ?)
releaseStockRowsAssign(inv, productId, quantity) ==
  IF HasRow(inv, productId)
    THEN [inv EXCEPT ![productId] = quantity]
    ELSE inv

\* (slip: the statement matches no row)
releaseStockRowsNoop(inv, productId, quantity) ==
  inv

\* UPDATE inventory SET quantity = quantity + ? WHERE product_id = ?
releaseStockRows(inv, productId, quantity) ==
  IF HasRow(inv, productId)
    THEN [inv EXCEPT ![productId] = @ + quantity]
    ELSE inv

\* ------------------------------------------------------------ JSON text
\* A JavaScript object is a function from its own property names to values.
\* The value of an optional property is written <<v>>, or <<>> when the
\* property is present and holds undefined.
OptionalKeys == {"order", "order_number"}

\* the properties JSON.stringify writes: it omits those holding undefined
JsonProps(obj) ==
  {k \in DOMAIN obj : ~(k \in OptionalKeys /\ obj[k] = Undefined)}

\* JSON.stringify(obj): the text of the remaining properties
Stringify(obj) ==
  [kind |-> "json", props |-> [k \in JsonProps(obj) |-> obj[k]]]

\* a TEXT value that is not JSON
CorruptText == [kind |-> "corrupt"]

\* JSON.parse(text) throws a SyntaxError on text that is not JSON
ParseThrows(text) == text.kind # "json"

\* JSON.parse(text) for JSON text
Parse(text) == text.props

\* the table with the row of key k inserted or replaced (INSERT ... ON
\* CONFLICT(k) DO UPDATE SET every other column = EXCLUDED.column)
Upsert(table, k, row) ==
  [x \in DOMAIN table \cup {k} |-> IF x = k THEN row ELSE table[x]]

\* --------------------------------------------------- Checkout Session Store
\* what a call yields when it throws instead of returning
Thrown == <<"SyntaxError", "thrown">>

\* (slip: ON CONFLICT(id) DO NOTHING)
saveCheckoutInsertOnly(table, checkoutId, status, checkoutObj) ==
  IF HasRow(table, checkoutId)
    THEN table
    ELSE Upsert(table, checkoutId,
                [status |-> status, data |-> Stringify(checkoutObj)])

\* (slip: the stored object is merged with the new one, field by field)
saveCheckoutMerge(table, checkoutId, status, checkoutObj) ==
  IF HasRow(table, checkoutId) /\ ~ParseThrows(table[checkoutId].data)
    THEN LET old == Parse(table[checkoutId].data)
             merged == [k \in DOMAIN old \cup DOMAIN checkoutObj |->
                          IF k \in DOMAIN checkoutObj THEN checkoutObj[k]
                                                      ELSE old[k]]
         IN Upsert(table, checkoutId,
                   [status |-> status, data |-> Stringify(merged)])
    ELSE Upsert(table, checkoutId,
                [status |-> status, data |-> Stringify(checkoutObj)])

\* (slip: ON CONFLICT(id) DO UPDATE SET data = EXCLUDED.data only)
saveCheckoutDataOnly(table, checkoutId, status, checkoutObj) ==
  IF HasRow(table, checkoutId)
    THEN [table EXCEPT ![checkoutId].data = Stringify(checkoutObj)]
    ELSE Upsert(table, checkoutId,
                [status |-> status, data |-> Stringify(checkoutObj)])

\* (slip: ON CONFLICT(id) DO UPDATE SET status = EXCLUDED.status only)
saveCheckoutStatusOnly(table, checkoutId, status, checkoutObj) ==
  IF HasRow(table, checkoutId)
    THEN [table EXCEPT ![checkoutId].status = status]
    ELSE Upsert(table, checkoutId,
                [status |-> status, data |-> Stringify(checkoutObj)])

\* saveCheckout(checkoutId, status, checkoutObj)
saveCheckout(table, checkoutId, status, checkoutObj) ==
  Upsert(table, checkoutId, [status |-> status, data |-> Stringify(checkoutObj)])

\* (slip: JSON.parse outside the try block)
getCheckoutSessionNoCatch(table, checkoutId) ==
  IF HasRow(table, checkoutId)
    THEN IF ParseThrows(table[checkoutId].data)
           THEN Thrown
           ELSE Some(Parse(table[checkoutId].data))
    ELSE Undefined

\* getCheckoutSession(checkoutId): the parsed data column, undefined when
\* there is no row or the data does not parse
getCheckoutSession(table, checkoutId) ==
  IF HasRow(table, checkoutId)
    THEN IF ParseThrows(table[checkoutId].data)
           THEN Undefined
           ELSE Some(Parse(table[checkoutId].data))
    ELSE Undefined

\* ------------------------------------------------------------------ Orders
\* saveOrder(orderId, orderObj)
saveOrder(table, orderId, orderObj) ==
  Upsert(table, orderId, [data |-> Stringify(orderObj)])

\* getOrder(orderId)
getOrder(table, orderId) ==
  IF HasRow(table, orderId)
    THEN IF ParseThrows(table[orderId].data)
           THEN Undefined
           ELSE Some(Parse(table[orderId].data))
    ELSE Undefined

\* ------------------------------------------------------- Request Audit Log
\* logRequest(method, url, checkoutId, payload); checkoutId || null stores
\* NULL, written <<>>, for undefined and for the empty string
logRequest(log, method, url, checkoutId, payload) ==
  Append(log, [method |-> method, url |-> url,
               checkout_id |-> IF checkoutId = Some("") THEN <<>> ELSE checkoutId,
               payload |-> Stringify(payload)])

\* ------------------------------------------------------- Idempotency Gate
\* (slip: the SELECT filters on another column and finds nothing)
getIdempotencyRecordMiss(table, key) ==
  Undefined

\* getIdempotencyRecord(key)
getIdempotencyRecord(table, key) ==
  IF HasRow(table, key)
    THEN Some([key |-> key,
               request_hash |-> table[key].request_hash,
               response_status |-> table[key].response_status,
               response_body |-> table[key].response_body])
    ELSE Undefined

\* (slip: ON CONFLICT(key) DO UPDATE without request_hash)
saveIdempotencyRecordKeepHash(table, key, requestHash, status, responseBody) ==
  IF HasRow(table, key)
    THEN Upsert(table, key, [request_hash |-> table[key].request_hash,
                             response_status |-> status,
                             response_body |-> responseBody])
    ELSE Upsert(table, key, [request_hash |-> requestHash,
                             response_status |-> status,
                             response_body |-> responseBody])

\* (slip: UPDATE idempotency_keys ... WHERE key = ?, no INSERT)
saveIdempotencyRecordUpdateOnly(table, key, requestHash, status, responseBody) ==
  IF HasRow(table, key)
    THEN Upsert(table, key, [request_hash |-> requestHash,
                             response_status |-> status,
                             response_body |-> responseBody])
    ELSE table

\* (slip: ON CONFLICT(key) DO NOTHING)
saveIdempotencyRecordIgnore(table, key, requestHash, status, responseBody) ==
  IF HasRow(table, key)
    THEN table
    ELSE Upsert(table, key, [request_hash |-> requestHash,
                             response_status |-> status,
                             response_body |-> responseBody])

\* saveIdempotencyRecord(key, requestHash, status, responseBody)
saveIdempotencyRecord(table, key, requestHash, status, responseBody) ==
  Upsert(table, key, [request_hash |-> requestHash,
                      response_status |-> status,
                      response_body |-> responseBody])

\* ------------------------------------------------------------------- Init
InitInventory ==
  /\ \E stocked \in SUBSET Products : inventory \in [stocked -> 0 .. MaxStock]
  /\ inv0 = inventory

\* a worker that handles no request
IdleReq ==
  [pc |-> "idle", kind |-> "none", key |-> NoKey, body |-> [none |-> 0],
   cid |-> "none", seq |-> 0, session |-> Undefined, idx |-> 0,
   acquired |-> <<>>, failed |-> "none", orderNo |-> 0,
   response |-> [status |-> 0, body |-> CorruptText],
   net |-> [p \in Catalog |-> 0], writes |-> {}, replayed |-> FALSE]

\* an OrderService handler that serves no request
IdleHandler ==
  [pc |-> "idle", op |-> "none", id |-> <<>>, body |-> <<>>, runs |-> 0,
   outcome |-> [status |-> 0, body |-> <<>>]]

\* nothing in flight
InitIdle ==
  /\ call = [c \in Callers |-> NoCall]
  /\ ledgerLog = <<>>
  /\ req = [r \in Reqs |-> IdleReq]
  /\ starts = 0
  /\ commits = [k \in Keys \cup {NoKey} |-> 0]
  /\ osv = [h \in Handlers |-> IdleHandler]
  /\ lastCall = [op |-> "none"]
  /\ supplied = <<>>

\* the tables as initDbs creates them, and nothing in flight
InitEmpty ==
  /\ checkouts = <<>>
  /\ orders = <<>>
  /\ idempotency_keys = <<>>
  /\ request_logs = <<>>
  /\ InitIdle

Init ==
  /\ InitInventory
  /\ InitEmpty

\* the stock the checkout requests start from
InitCheckout ==
  /\ \E s \in 0 .. 1 :
       inventory = [p \in Catalog |->
                      IF p = "P1" THEN MaxStock ELSE IF p = "P2" THEN 1 ELSE s]
  /\ inv0 = inventory
  /\ InitEmpty

\* ------------------------------------------- direct callers of the ledger
CallsIssued ==
  Len(ledgerLog) + Cardinality({c \in Callers : call[c].op # "none"})

\* another caller has a reserve of the same product in flight together with c's
Racing(c) ==
  \E d \in Callers \ {c} : call[d].op = "reserve" /\ call[d].p = call[c].p

\* a caller invokes reserveStock(p, q); the statement is now in flight
IssueReserve(c, p, q) ==
  /\ call[c].op = "none"
  /\ CallsIssued < MaxCalls
  /\ call' = [call EXCEPT ![c] = [op |-> "reserve", p |-> p, q |-> q]]
  /\ UNCHANGED <<inventory, ledgerLog, inv0, storeVars, reqVars, auxVars>>

\* the storage runs the UPDATE of reserveStock and the promise resolves
ExecReserve(c) ==
  /\ call[c].op = "reserve"
  /\ inventory' = reserveStockRows(inventory, call[c].p, call[c].q)
  /\ ledgerLog' = Append(ledgerLog,
       [op |-> "reserve", p |-> call[c].p, q |-> call[c].q,
        ok |-> reserveStockResult(inventory, call[c].p, call[c].q),
        racing |-> Racing(c),
        before |-> getInventory(inventory, call[c].p),
        after |-> getInventory(inventory', call[c].p)])
  /\ call' = [call EXCEPT ![c] = NoCall]
  /\ UNCHANGED <<inv0, storeVars, reqVars, auxVars>>

\* a caller invokes releaseStock(p, q)
IssueRelease(c, p, q) ==
  /\ call[c].op = "none"
  /\ CallsIssued < MaxCalls
  /\ call' = [call EXCEPT ![c] = [op |-> "release", p |-> p, q |-> q]]
  /\ UNCHANGED <<inventory, ledgerLog, inv0, storeVars, reqVars, auxVars>>

\* the storage runs the UPDATE of releaseStock; the promise resolves to void
ExecRelease(c) ==
  /\ call[c].op = "release"
  /\ inventory' = releaseStockRows(inventory, call[c].p, call[c].q)
  /\ ledgerLog' = Append(ledgerLog,
       [op |-> "release", p |-> call[c].p, q |-> call[c].q,
        ok |-> TRUE, racing |-> FALSE,
        before |-> getInventory(inventory, call[c].p),
        after |-> getInventory(inventory', call[c].p)])
  /\ call' = [call EXCEPT ![c] = NoCall]
  /\ UNCHANGED <<inv0, storeVars, reqVars, auxVars>>

\* only reserveStock is called
NextReserve ==
  \/ \E c \in Callers, p \in Products, q \in Qtys : IssueReserve(c, p, q)
  \/ \E c \in Callers : ExecReserve(c)

SpecReserve == Init /\ [][NextReserve]_vars

\* reserveStock and releaseStock are called
NextLedger ==
  \/ \E c \in Callers, p \in Products, q \in Qtys : IssueReserve(c, p, q)
  \/ \E c \in Callers : ExecReserve(c)
  \/ \E c \in Callers, p \in Products, q \in Qtys : IssueRelease(c, p, q)
  \/ \E c \in Callers : ExecRelease(c)

SpecLedger == Init /\ [][NextLedger]_vars

\* ------------------------------------------- checkout request handling
\* hash of the normalized request body
Hash(body) == <<"hash", Stringify(body)>>

\* the order id derived from a checkout id
OrderIdOf(cid) == <<"order", cid>>

\* a 200 response carrying obj
OkResponse(obj) == [status |-> 200, body |-> Stringify(obj)]

\* an error response
ErrorResponse(status, error, detail) ==
  [status |-> status, body |-> Stringify([error |-> error, detail |-> detail])]

\* the session with status completed and the order reference attached
CompletedCheckout(session, oid) ==
  [id |-> session.id, status |-> "completed", items |-> session.items,
   order |-> Some(oid)]

\* the frozen snapshot of the checkout plus the provider's order number
OrderOf(session, oid, orderNo) ==
  [id |-> oid, checkout_id |-> session.id, items |-> session.items,
   order_number |-> Some(orderNo)]

\* worker r ends its request with response resp
Finish(r, resp) ==
  req' = [req EXCEPT ![r].pc = "done", ![r].response = resp]

\* the requests other than r that carry key and are not yet answered
InFlightWithKey(r, key) ==
  {o \in Reqs \ {r} : req[o].pc \notin {"idle", "done"} /\ req[o].key = key}

\* a mutating request arrives at a free worker
Start(r, kind, key, body, cid) ==
  /\ req[r].pc \in {"idle", "done"}
  /\ starts < MaxStarts
  /\ starts' = starts + 1
  /\ req' = [req EXCEPT ![r] =
       [IdleReq EXCEPT !.pc = "gate", !.kind = kind, !.key = key,
                       !.body = body, !.cid = cid, !.seq = starts + 1]]
  /\ UNCHANGED <<inventory, inv0, storeVars, ledgerVars, auxVars, commits>>

\* the same, for a client that re-sends a key only after the earlier request
\* with that key was answered
StartRetry(r, kind, key, body, cid) ==
  /\ key # NoKey => InFlightWithKey(r, key) = {}
  /\ Start(r, kind, key, body, cid)

\* Idempotency Gate: check(key), then replay, conflict or proceed
GateCheck(r) ==
  /\ req[r].pc = "gate"
  /\ LET rec == IF req[r].key = NoKey THEN Undefined
                ELSE getIdempotencyRecord(idempotency_keys, req[r].key)
     IN IF rec = Undefined
          THEN req' = [req EXCEPT ![r].pc = "audit"]
          ELSE IF rec[1].request_hash = Hash(req[r].body)
            THEN req' = [req EXCEPT ![r].pc = "done", ![r].replayed = TRUE,
                           ![r].response = [status |-> rec[1].response_status,
                                            body |-> rec[1].response_body]]
            ELSE Finish(r, ErrorResponse(409, "idempotency_conflict", req[r].key))
  /\ UNCHANGED <<inventory, inv0, storeVars, ledgerVars, auxVars, starts, commits>>

\* the request is written to the audit log
Audit(r) ==
  /\ req[r].pc = "audit"
  /\ request_logs' = logRequest(request_logs, "POST", req[r].kind,
                                Some(req[r].cid), req[r].body)
  /\ req' = [req EXCEPT ![r].pc = "load"]
  /\ UNCHANGED <<inventory, inv0, checkouts, orders, idempotency_keys,
                 ledgerVars, auxVars, starts, commits>>

\* the session is read; a completed session rejects the mutation, and a
\* finalize needs a session with line items
LoadSession(r) ==
  /\ req[r].pc = "load"
  /\ LET s == getCheckoutSession(checkouts, req[r].cid)
     IN IF s # Undefined /\ s[1].status = "completed"
          THEN Finish(r, ErrorResponse(409, "checkout_completed", req[r].cid))
          ELSE IF req[r].kind = "update"
            THEN req' = [req EXCEPT ![r].pc = "save", ![r].session = s]
            ELSE IF s = Undefined \/ s[1].items = <<>>
              THEN Finish(r, ErrorResponse(400, "validation", req[r].cid))
              ELSE req' = [req EXCEPT ![r].pc = "reserve", ![r].session = s,
                                      ![r].idx = 1]
  /\ UNCHANGED <<inventory, inv0, storeVars, ledgerVars, auxVars, starts, commits>>

\* where a request goes once its mutation is applied: keyed requests record
\* the outcome before they respond
AfterMutation(r) == IF req[r].key = NoKey THEN "respond" ELSE "record"

\* an intermediate mutation saves the session as in_progress
SaveSession(r) ==
  /\ req[r].pc = "save"
  /\ LET obj == [id |-> req[r].cid, status |-> "in_progress",
                 items |-> req[r].body.items]
     IN /\ checkouts' = saveCheckout(checkouts, req[r].cid, obj.status, obj)
        /\ req' = [req EXCEPT ![r].pc = AfterMutation(r),
                              ![r].response = OkResponse(obj),
                              ![r].writes = @ \cup {"checkouts"}]
  /\ commits' = [commits EXCEPT ![req[r].key] = @ + 1]
  /\ UNCHANGED <<inventory, inv0, orders, idempotency_keys, request_logs,
                 ledgerVars, auxVars, starts>>

\* what a ledger statement of r changed, added to r's running total
NetAfter(r, inv) ==
  [p \in Catalog |-> req[r].net[p] + (inv[p] - inventory[p])]

\* Order Finalizer step 2: reserve the next line item
Reserve(r) ==
  /\ req[r].pc = "reserve"
  /\ LET items == req[r].session[1].items
         item == items[req[r].idx]
         ok == reserveStockResult(inventory, item.p, item.q)
         inv == reserveStockRows(inventory, item.p, item.q)
     IN /\ inventory' = inv
        /\ IF ok
             THEN req' = [req EXCEPT
                    ![r].acquired = Append(@, item),
                    ![r].idx = @ + 1,
                    ![r].net = NetAfter(r, inv),
                    ![r].pc = IF req[r].idx = Len(items) THEN "submit"
                                                         ELSE "reserve"]
             ELSE req' = [req EXCEPT ![r].pc = "release", ![r].failed = item.p,
                                     ![r].net = NetAfter(r, inv)]
  /\ UNCHANGED <<inv0, storeVars, ledgerVars, auxVars, starts, commits>>

\* Order Finalizer step 3: the remote provider accepts or fails the order
Submit(r) ==
  /\ req[r].pc = "submit"
  /\ \/ req' = [req EXCEPT ![r].pc = "persist", ![r].orderNo = req[r].seq]
     \/ req' = [req EXCEPT ![r].pc = "release", ![r].failed = "provider"]
  /\ UNCHANGED <<inventory, inv0, storeVars, ledgerVars, auxVars, starts, commits>>

\* compensation: release the oldest reservation still held by this attempt
Release(r) ==
  /\ req[r].pc = "release"
  /\ req[r].acquired # <<>>
  /\ LET item == Head(req[r].acquired)
         inv == releaseStockRows(inventory, item.p, item.q)
     IN /\ inventory' = inv
        /\ req' = [req EXCEPT ![r].acquired = Tail(@),
                              ![r].net = NetAfter(r, inv)]
  /\ UNCHANGED <<inv0, storeVars, ledgerVars, auxVars, starts, commits>>

\* compensation is over: the error is surfaced and nothing is recorded
Reject(r) ==
  /\ req[r].pc = "release"
  /\ req[r].acquired = <<>>
  /\ IF req[r].failed = "provider"
       THEN Finish(r, ErrorResponse(502, "provider_error", req[r].cid))
       ELSE Finish(r, ErrorResponse(409, "insufficient_stock", req[r].failed))
  /\ UNCHANGED <<inventory, inv0, storeVars, ledgerVars, auxVars, starts, commits>>

\* Order Finalizer step 4a: persist the Order
PersistOrder(r) ==
  /\ req[r].pc = "persist"
  /\ LET oid == OrderIdOf(req[r].cid)
     IN orders' = saveOrder(orders, oid,
                            OrderOf(req[r].session[1], oid, req[r].orderNo))
  /\ req' = [req EXCEPT ![r].pc = "complete", ![r].writes = @ \cup {"orders"}]
  /\ UNCHANGED <<inventory, inv0, checkouts, idempotency_keys, request_logs,
                 ledgerVars, auxVars, starts, commits>>

\* Order Finalizer step 4b: mark the session completed
CompleteSession(r) ==
  /\ req[r].pc = "complete"
  /\ LET obj == CompletedCheckout(req[r].session[1], OrderIdOf(req[r].cid))
     IN /\ checkouts' = saveCheckout(checkouts, req[r].cid, obj.status, obj)
        /\ req' = [req EXCEPT ![r].pc = AfterMutation(r),
                              ![r].response = OkResponse(obj),
                              ![r].writes = @ \cup {"checkouts"}]
  /\ commits' = [commits EXCEPT ![req[r].key] = @ + 1]
  /\ UNCHANGED <<inventory, inv0, orders, idempotency_keys, request_logs,
                 ledgerVars, auxVars, starts>>

\* Idempotency Gate: record(key, requestHash, status, body)
Record(r) ==
  /\ req[r].pc = "record"
  /\ idempotency_keys' =
       saveIdempotencyRecord(idempotency_keys, req[r].key, Hash(req[r].body),
                             req[r].response.status, req[r].response.body)
  /\ req' = [req EXCEPT ![r].pc = "respond",
                        ![r].writes = @ \cup {"idempotency_keys"}]
  /\ UNCHANGED <<inventory, inv0, checkouts, orders, request_logs,
                 ledgerVars, auxVars, starts, commits>>

\* the response is returned to the client
Respond(r) ==
  /\ req[r].pc = "respond"
  /\ req' = [req EXCEPT ![r].pc = "done"]
  /\ UNCHANGED <<inventory, inv0, storeVars, ledgerVars, auxVars, starts, commits>>

\* the steps of a request once it has arrived
Handle(r) ==
  \/ GateCheck(r)
  \/ Audit(r)
  \/ LoadSession(r)
  \/ SaveSession(r)
  \/ Reserve(r)
  \/ Submit(r)
  \/ Release(r)
  \/ Reject(r)
  \/ PersistOrder(r)
  \/ CompleteSession(r)
  \/ Record(r)
  \/ Respond(r)

\* overlapping requests, any keys
NextCheckout ==
  \/ \E r \in Reqs, key \in Keys \cup {NoKey}, cid \in CheckoutIds :
       \/ \E body \in UpdateBodies : Start(r, "update", key, body, cid)
       \/ \E body \in CompleteBodies : Start(r, "complete", key, body, cid)
  \/ \E r \in Reqs : Handle(r)

SpecCheckout == InitCheckout /\ [][NextCheckout]_vars

\* overlapping requests, but a key is re-sent only after its answer
NextReplay ==
  \/ \E r \in Reqs, key \in Keys \cup {NoKey}, cid \in CheckoutIds :
       \/ \E body \in UpdateBodies : StartRetry(r, "update", key, body, cid)
       \/ \E body \in CompleteBodies : StartRetry(r, "complete", key, body, cid)
  \/ \E r \in Reqs : Handle(r)

SpecReplay == InitCheckout /\ [][NextReplay]_vars

\* ------------------------------------------------------------ OrderService
\* the order ids a request can name
OrderIds == {OrderIdOf(c) : c \in OrderCheckouts}

\* the line items of the orders in this scenario
OrderItems == <<[p |-> "P1", q |-> 1]>>

\* the order the Order Finalizer stored for checkout C1
StoredOrder ==
  OrderOf([id |-> "C1", items |-> OrderItems], OrderIdOf("C1"), 1)

\* request bodies of PUT /orders/:id: the stored order with a status, an
\* order with another id, snapshot and order number, and a bare status
UpdateOrderBodies ==
  { [id |-> OrderIdOf("C1"), checkout_id |-> "C1", items |-> OrderItems,
     order_number |-> Some(1), status |-> "shipped"],
    [id |-> OrderIdOf("C2"), checkout_id |-> "C2", items |-> <<>>,
     order_number |-> Some(2)],
    [status |-> "cancelled"] }

\* the orders table when the service starts: empty, holding the order of C1,
\* or holding a row whose data is not JSON
InitOrders ==
  /\ orders \in { <<>>,
                  saveOrder(<<>>, OrderIdOf("C1"), StoredOrder),
                  [k \in {OrderIdOf("C1")} |-> [data |-> CorruptText]] }
  /\ inventory = <<>>
  /\ inv0 = inventory
  /\ checkouts = <<>>
  /\ idempotency_keys = <<>>
  /\ request_logs = <<>>
  /\ InitIdle

\* obj.k in JavaScript, undefined when obj has no property k
Prop(obj, k) == IF k \in DOMAIN obj THEN Some(obj[k]) ELSE Undefined

\* (slip: obj.k = obj.k || v, the assignment keeps a value already there)
WithPropKeep(obj, k, v) ==
  [x \in DOMAIN obj \cup {k} |-> IF x \in DOMAIN obj THEN obj[x] ELSE v]

\* obj after the assignment obj.k = v
WithProp(obj, k, v) ==
  [x \in DOMAIN obj \cup {k} |-> IF x = k THEN v ELSE obj[x]]

\* c.json(body, status)
JsonResponse(body, status) == [status |-> status, body |-> body]

\* the handler rejected: an awaited call threw and nothing caught it
Rejected == [status |-> 500, body |-> [threw |-> "storage error"]]

OrderRequests ==
  osv["h1"].runs + osv["h2"].runs

\* GET /orders/:id or PUT /orders/:id reaches a free handler
OrderStart(h, op, id, body) ==
  /\ osv[h].pc \in {"idle", "done"}
  /\ OrderRequests < MaxOrderReqs
  /\ osv' = [osv EXCEPT ![h] = [pc |-> "log", op |-> op, id |-> id,
                                body |-> body, runs |-> osv[h].runs + 1,
                                outcome |-> IdleHandler.outcome]]
  /\ UNCHANGED <<inventory, inv0, storeVars, ledgerVars, reqVars,
                 lastCall, supplied>>

\* await logRequest(...) resolves
OrderLog(h) ==
  /\ osv[h].pc = "log"
  /\ request_logs' =
       IF osv[h].op = "GET"
         THEN logRequest(request_logs, "GET", <<"/orders/", osv[h].id>>,
                         Undefined, <<>>)
         ELSE logRequest(request_logs, "PUT", <<"/orders/", osv[h].id>>,
                         Prop(osv[h].body, "checkout_id"), osv[h].body)
  /\ osv' = [osv EXCEPT ![h].pc = "get"]
  /\ UNCHANGED <<inventory, inv0, checkouts, orders, idempotency_keys,
                 ledgerVars, reqVars, lastCall, supplied>>

\* await logRequest(...) rejects with a storage error; the handlers have no
\* try/catch around it
OrderLogFails(h) ==
  /\ osv[h].pc = "log"
  /\ osv' = [osv EXCEPT ![h].pc = "done", ![h].outcome = Rejected]
  /\ UNCHANGED <<inventory, inv0, storeVars, ledgerVars, reqVars,
                 lastCall, supplied>>

\* await getOrder(id), and the 404 or (for GET) the 200 that follows
OrderGet(h) ==
  /\ osv[h].pc = "get"
  /\ LET order == getOrder(orders, osv[h].id)
     IN IF order = Undefined
          THEN osv' = [osv EXCEPT ![h].pc = "done",
                 ![h].outcome = JsonResponse([error |-> "Order not found"], 404)]
          ELSE IF osv[h].op = "GET"
            THEN osv' = [osv EXCEPT ![h].pc = "done",
                           ![h].outcome = JsonResponse(order[1], 200)]
            ELSE osv' = [osv EXCEPT ![h].pc = "save"]
  /\ UNCHANGED <<inventory, inv0, storeVars, ledgerVars, reqVars,
                 lastCall, supplied>>

\* updateRequest.id = id; await saveOrder(id, updateRequest); 200
OrderSave(h) ==
  /\ osv[h].pc = "save"
  /\ LET updateRequest == WithProp(osv[h].body, "id", osv[h].id)
     IN /\ orders' = saveOrder(orders, osv[h].id, updateRequest)
        /\ osv' = [osv EXCEPT ![h].pc = "done",
                              ![h].outcome = JsonResponse(updateRequest, 200)]
  /\ UNCHANGED <<inventory, inv0, checkouts, idempotency_keys, request_logs,
                 ledgerVars, reqVars, lastCall, supplied>>

NextOrders ==
  \/ \E h \in Handlers, id \in OrderIds : OrderStart(h, "GET", id, <<>>)
  \/ \E h \in Handlers, id \in OrderIds, body \in UpdateOrderBodies :
       OrderStart(h, "PUT", id, body)
  \/ \E h \in Handlers : OrderLog(h)
  \/ \E h \in Handlers : OrderLogFails(h)
  \/ \E h \in Handlers : OrderGet(h)
  \/ \E h \in Handlers : OrderSave(h)

SpecOrders == InitOrders /\ [][NextOrders]_vars

\* ------------------------------------------------- direct calls of the store
\* The exported functions of the transactions store are called one at a time
\* with any arguments; lastCall holds the latest call and what it returned,
\* supplied the arguments of the latest save per table and primary key, and
\* for a session the property names of the payloads saved before it.
StoreIds == {"C1"}

\* an identifier that no save uses
UnknownIds == {"C2"}
StoreStatuses == {"in_progress", "completed"}
StorePayloads ==
  { [id |-> "C1", items |-> OrderItems, buyer |-> "b1"],
    [id |-> "C1", items |-> <<>>],
    [id |-> "C1", items |-> OrderItems, order |-> Undefined] }
StoreKeys == {"k1", "k2"}
StoreHashes == {"h1", "h2"}
StoreResponses == {[status |-> 200, body |-> "ok"], [status |-> 409, body |-> "no"]}

\* the tables hold nothing, or a row whose data column is not JSON
InitStore ==
  /\ checkouts \in {<<>>, [k \in {"C1"} |->
                             [status |-> "in_progress", data |-> CorruptText]]}
  /\ orders \in {<<>>, [k \in {OrderIdOf("C1")} |-> [data |-> CorruptText]]}
  /\ idempotency_keys = <<>>
  /\ request_logs = <<>>
  /\ inventory = <<>>
  /\ inv0 = inventory
  /\ InitIdle

\* saveCheckout(id, status, payload) is called and resolves
SaveCheckoutCall(id, status, payload) ==
  /\ checkouts' = saveCheckout(checkouts, id, status, payload)
  /\ supplied' = Upsert(supplied, <<"checkouts", id>>,
                        [status |-> status, payload |-> payload,
                         earlier |-> IF HasRow(supplied, <<"checkouts", id>>)
                                       THEN supplied[<<"checkouts", id>>].earlier
                                            \cup DOMAIN supplied[<<"checkouts", id>>].payload
                                       ELSE {}])
  /\ lastCall' = [op |-> "saveCheckout", id |-> id, result |-> Undefined]
  /\ UNCHANGED <<inventory, inv0, orders, idempotency_keys, request_logs,
                 ledgerVars, reqVars, osv>>

\* getCheckoutSession(id) is called and resolves
GetCheckoutCall(id) ==
  /\ lastCall' = [op |-> "getCheckoutSession", id |-> id,
                  result |-> getCheckoutSession(checkouts, id)]
  /\ UNCHANGED <<inventory, inv0, storeVars, ledgerVars, reqVars, osv, supplied>>

\* saveOrder(id, order) is called and resolves
SaveOrderCall(id, order) ==
  /\ orders' = saveOrder(orders, id, order)
  /\ supplied' = Upsert(supplied, <<"orders", id>>, [payload |-> order])
  /\ lastCall' = [op |-> "saveOrder", id |-> id, result |-> Undefined]
  /\ UNCHANGED <<inventory, inv0, checkouts, idempotency_keys, request_logs,
                 ledgerVars, reqVars, osv>>

\* getOrder(id) is called and resolves
GetOrderCall(id) ==
  /\ lastCall' = [op |-> "getOrder", id |-> id, result |-> getOrder(orders, id)]
  /\ UNCHANGED <<inventory, inv0, storeVars, ledgerVars, reqVars, osv, supplied>>

\* saveIdempotencyRecord(key, requestHash, status, responseBody) is called
SaveIdempotencyCall(key, requestHash, resp) ==
  /\ idempotency_keys' =
       saveIdempotencyRecord(idempotency_keys, key, requestHash,
                             resp.status, resp.body)
  /\ supplied' = Upsert(supplied, <<"idempotency_keys", key>>,
                        [request_hash |-> requestHash,
                         response_status |-> resp.status,
                         response_body |-> resp.body])
  /\ lastCall' = [op |-> "saveIdempotencyRecord", id |-> key, result |-> Undefined]
  /\ UNCHANGED <<inventory, inv0, checkouts, orders, request_logs,
                 ledgerVars, reqVars, osv>>

\* getIdempotencyRecord(key) is called and resolves
GetIdempotencyCall(key) ==
  /\ lastCall' = [op |-> "getIdempotencyRecord", id |-> key,
                  result |-> getIdempotencyRecord(idempotency_keys, key)]
  /\ UNCHANGED <<inventory, inv0, storeVars, ledgerVars, reqVars, osv, supplied>>

NextStore ==
  \/ \E id \in StoreIds, st \in StoreStatuses, payload \in StorePayloads :
       SaveCheckoutCall(id, st, payload)
  \/ \E id \in StoreIds \cup UnknownIds : GetCheckoutCall(id)
  \/ \E id \in OrderIds : SaveOrderCall(id, StoredOrder)
  \/ \E id \in OrderIds : GetOrderCall(id)
  \/ \E key \in StoreKeys, h \in StoreHashes, resp \in StoreResponses :
       SaveIdempotencyCall(key, h, resp)
  \/ \E key \in StoreKeys : GetIdempotencyCall(key)

SpecStore == InitStore /\ [][NextStore]_vars

\* ------------------------------------------------------------ the lookups
\* The four lookups are called directly with any key, and GET /orders/:id is
\* served, over tables that hold a row or none.
InitReads ==
  /\ InitInventory
  /\ checkouts \in {<<>>, saveCheckout(<<>>, "C1", "in_progress",
                                       [id |-> "C1", items |-> OrderItems])}
  /\ orders \in {<<>>, saveOrder(<<>>, OrderIdOf("C1"), StoredOrder)}
  /\ idempotency_keys \in {<<>>, saveIdempotencyRecord(<<>>, "k1", "h1", 200, "ok")}
  /\ request_logs = <<>>
  /\ InitIdle

\* getInventory(productId) is called and resolves
GetInventoryCall(productId) ==
  /\ lastCall' = [op |-> "getInventory", id |-> productId,
                  result |-> getInventory(inventory, productId)]
  /\ UNCHANGED <<inventory, inv0, storeVars, ledgerVars, reqVars, osv, supplied>>

NextReads ==
  \/ \E p \in Products : GetInventoryCall(p)
  \/ \E id \in StoreIds \cup UnknownIds : GetCheckoutCall(id)
  \/ \E id \in OrderIds : GetOrderCall(id)
  \/ \E key \in StoreKeys : GetIdempotencyCall(key)
  \/ \E id \in OrderIds : OrderStart("h1", "GET", id, <<>>)
  \/ OrderLog("h1")
  \/ OrderLogFails("h1")
  \/ OrderGet("h1")

SpecReads == InitReads /\ [][NextReads]_vars

\* ------------------------------------------------- concurrent saveCheckout
\* Two callers call saveCheckout at any time. A call serializes its payload
\* and hands the statement to the storage (IssueSave); the storage runs the
\* statements one at a time in any order (ExecSave). supplied holds, per id,
\* the arguments of the statement the storage ran last, whether another save
\* of the same id was in flight then, and the same of the statement before.
SaveIds == {"C1", "C2"}

\* the arguments of the calls: each status goes with its own payload
SaveArgs ==
  { [status |-> "in_progress",
     payload |-> [id |-> "C1", items |-> OrderItems, buyer |-> "b1"]],
    [status |-> "completed",
     payload |-> [id |-> "C1", items |-> <<>>, order |-> Undefined]] }

\* a caller other than c has a saveCheckout of the same id in flight
SaveRacing(c) ==
  \E d \in Callers \ {c} :
    call[d].op = "saveCheckout" /\ call[d].id = call[c].id

\* saveCheckout(id, status, payload) is called: the statement is in flight
IssueSave(c, id, args) ==
  /\ call[c].op = "none"
  /\ call' = [call EXCEPT ![c] = [op |-> "saveCheckout", id |-> id,
                                  status |-> args.status,
                                  payload |-> args.payload]]
  /\ UNCHANGED <<inventory, inv0, storeVars, ledgerLog, reqVars, auxVars>>

\* the storage runs the INSERT ... ON CONFLICT of c's call
ExecSave(c) ==
  /\ call[c].op = "saveCheckout"
  /\ checkouts' = saveCheckout(checkouts, call[c].id, call[c].status,
                               call[c].payload)
  /\ supplied' =
       Upsert(supplied, <<"checkouts", call[c].id>>,
              [status |-> call[c].status, payload |-> call[c].payload,
               racing |-> SaveRacing(c),
               prev |-> IF HasRow(supplied, <<"checkouts", call[c].id>>)
                          THEN Some([status |-> supplied[<<"checkouts", call[c].id>>].status,
                                     racing |-> supplied[<<"checkouts", call[c].id>>].racing])
                          ELSE Undefined])
  /\ call' = [call EXCEPT ![c] = NoCall]
  /\ UNCHANGED <<inventory, inv0, orders, idempotency_keys, request_logs,
                 ledgerLog, reqVars, osv, lastCall>>

NextSaves ==
  \/ \E c \in Callers, id \in SaveIds, args \in SaveArgs : IssueSave(c, id, args)
  \/ \E c \in Callers : ExecSave(c)

\* empty tables, no call in flight
InitSaves ==
  /\ inventory = <<>>
  /\ inv0 = inventory
  /\ InitEmpty

SpecSaves == InitSaves /\ [][NextSaves]_vars

\* ================================================================== claims
\* the sum of the quantities of the successful reserves of p among the first
\* n statements of the log
RECURSIVE SumOk(_, _)
SumOk(p, n) ==
  IF n = 0 THEN 0
  ELSE SumOk(p, n - 1)
       + (IF ledgerLog[n].op = "reserve" /\ ledgerLog[n].p = p /\ ledgerLog[n].ok
            THEN ledgerLog[n].q ELSE 0)

\* C1: starting from quantities >= 0, no interleaving of reserveStock calls
\* with any integer quantity leaves a product's recorded quantity below zero.
C1_ReserveNeverBelowZero ==
  \A p \in DOMAIN inventory : inventory[p] >= 0

\* concurrent reserves of one product asked for more than its stock: one was
\* refused and the stock is used up
C1_Witness ==
  \E i, j \in 1 .. Len(ledgerLog) :
    /\ i < j
    /\ ledgerLog[i].p = ledgerLog[j].p
    /\ ledgerLog[i].p \in DOMAIN inv0
    /\ ledgerLog[i].racing
    /\ ledgerLog[i].ok /\ ~ledgerLog[j].ok
    /\ ledgerLog[i].q + ledgerLog[j].q > inv0[ledgerLog[i].p]
    /\ inventory[ledgerLog[i].p] = 0

\* C2: reserveStock(p, q) returns true and decrements p by exactly q iff p has
\* a row with quantity >= q when the update runs; otherwise it returns false,
\* changes no quantity and creates no row.
C2_ReserveIffSufficient ==
  [][\A c \in Callers :
       (call[c].op = "reserve" /\ call'[c].op = "none") =>
         LET p == call[c].p
             q == call[c].q
             ok == ledgerLog'[Len(ledgerLog')].ok
             sufficient == p \in DOMAIN inventory /\ inventory[p] >= q
         IN /\ ok <=> sufficient
            /\ DOMAIN inventory' = DOMAIN inventory
            /\ sufficient =>
                 /\ inventory'[p] = inventory[p] - q
                 /\ \A o \in DOMAIN inventory \ {p} : inventory'[o] = inventory[o]
            /\ ~sufficient => inventory' = inventory]_vars

\* all three cases occurred: a success, a refusal for insufficient stock and
\* a refusal for a product without a row
C2_Witness ==
  /\ \E i \in 1 .. Len(ledgerLog) : ledgerLog[i].ok /\ ledgerLog[i].q > 0
  /\ \E i \in 1 .. Len(ledgerLog) :
       ~ledgerLog[i].ok /\ ledgerLog[i].p \in DOMAIN inventory
  /\ \E i \in 1 .. Len(ledgerLog) : ledgerLog[i].p \notin DOMAIN inventory

\* C3: concurrent reserves of a product behave as if run one at a time in the
\* order the storage serialized them: an attempt succeeds exactly when its
\* quantity is <= the stock left by the earlier successes, the successful
\* quantities never sum to more than the initial stock, the final quantity is
\* the initial stock minus that sum, and of two requests racing for the last
\* unit exactly one succeeds.
C3_SerializedOutcome ==
  /\ \A i \in 1 .. Len(ledgerLog) :
       LET p == ledgerLog[i].p IN
       ledgerLog[i].ok <=>
         (p \in DOMAIN inv0 /\ ledgerLog[i].q <= inv0[p] - SumOk(p, i - 1))
  /\ \A p \in DOMAIN inv0 :
       /\ SumOk(p, Len(ledgerLog)) <= inv0[p]
       /\ inventory[p] = inv0[p] - SumOk(p, Len(ledgerLog))
  /\ \A i, j \in 1 .. Len(ledgerLog) :
       (/\ j = i + 1
        /\ ledgerLog[i].p = ledgerLog[j].p
        /\ ledgerLog[i].p \in DOMAIN inv0
        /\ ledgerLog[i].q = 1 /\ ledgerLog[j].q = 1
        /\ inv0[ledgerLog[i].p] - SumOk(ledgerLog[i].p, i - 1) = 1)
       => (ledgerLog[i].ok /\ ~ledgerLog[j].ok)

\* two callers raced for the last unit of a product
C3_Witness ==
  \E i, j \in 1 .. Len(ledgerLog) :
    /\ j = i + 1
    /\ ledgerLog[i].p = ledgerLog[j].p
    /\ ledgerLog[i].racing
    /\ ledgerLog[i].q = 1 /\ ledgerLog[j].q = 1
    /\ ledgerLog[i].p \in DOMAIN inv0
    /\ inv0[ledgerLog[i].p] - SumOk(ledgerLog[i].p, i - 1) = 1
    /\ ledgerLog[i].ok /\ ~ledgerLog[j].ok

\* C4: in every state reachable by reserveStock and releaseStock calls with
\* any integer quantity arguments, every inventory quantity is a non-negative
\* integer.
C4_QuantityNonNegative ==
  \A p \in DOMAIN inventory : inventory[p] \in Nat

\* worker r took this step
Stepped(r) == req'[r] # req[r]

\* the error name carried by a response body, "" for a body without one
ErrorOf(resp) ==
  IF resp.body.kind = "json" /\ "error" \in DOMAIN resp.body.props
    THEN resp.body.props.error ELSE ""

\* r ended a finalize with the given error
EndedWith(r, error) ==
  req[r].pc = "done" /\ ~req[r].replayed /\ ErrorOf(req[r].response) = error

C6_CheckThenOverwrite ==
  [][\A r \in Reqs :
       /\ (Stepped(r) /\ req[r].pc = "gate") =>
            /\ idempotency_keys' = idempotency_keys
            /\ (req[r].key # NoKey /\ ~HasRow(idempotency_keys, req[r].key))
                 => req'[r].pc = "audit"
       /\ (Stepped(r) /\ req[r].pc = "record") =>
            /\ DOMAIN idempotency_keys' = DOMAIN idempotency_keys \cup {req[r].key}
            /\ idempotency_keys'[req[r].key] =
                 [request_hash |-> Hash(req[r].body),
                  response_status |-> req[r].response.status,
                  response_body |-> req[r].response.body]
            /\ \A k \in DOMAIN idempotency_keys \ {req[r].key} :
                 idempotency_keys'[k] = idempotency_keys[k]]_vars

\* both workers handled a first-time request with the same key, both applied
\* the mutation and both recorded
C6_Witness ==
  \E k \in Keys :
    /\ commits[k] = 2
    /\ \A r \in Reqs :
         /\ req[r].key = k /\ req[r].pc = "done" /\ ~req[r].replayed
         /\ req[r].response.status = 200
         /\ "idempotency_keys" \in req[r].writes

\* C7: when the reservation of a line item fails, the finalize releases each
\* reservation it acquired exactly once, so its own statements leave every
\* product's quantity where it was; it is rejected with an insufficient-stock
\* error naming the failing product, persists no order and does not mark the
\* session completed.
C7_CompensationOnInsufficientStock ==
  \A r \in Reqs :
    EndedWith(r, "insufficient_stock") =>
      /\ req[r].acquired = <<>>
      /\ \A p \in Catalog : req[r].net[p] = 0
      /\ req[r].failed = req[r].session[1].items[req[r].idx].p
      /\ req[r].response = ErrorResponse(409, "insufficient_stock", req[r].failed)
      /\ req[r].writes = {}

\* a finalize failed on its third line item after reserving the first two
C7_Witness ==
  \E r \in Reqs :
    /\ EndedWith(r, "insufficient_stock")
    /\ req[r].idx = 3
    /\ req[r].acquired = <<>>

\* C8: when every reservation succeeded and the provider fails, the finalize
\* releases all its reservations before it surfaces the provider error,
\* persists no order, leaves the session alone and records nothing in the
\* gate (the gate only ever holds successes), so a retry with the same key
\* finds no record and executes again.
C8_ProviderFailure ==
  /\ [](\A r \in Reqs :
          /\ ErrorOf(req[r].response) = "provider_error" =>
               (req[r].acquired = <<>> /\ \A p \in Catalog : req[r].net[p] = 0)
          /\ EndedWith(r, "provider_error") =>
               (req[r].writes = {} /\ req[r].response.status = 502))
  /\ [](\A k \in DOMAIN idempotency_keys :
          idempotency_keys[k].response_status = 200)
  /\ [][\A r \in Reqs :
          (/\ Stepped(r) /\ req[r].pc = "gate"
           /\ \A k \in DOMAIN idempotency_keys : k # req[r].key)
            => req'[r].pc = "audit"]_vars

\* a keyed finalize ended with a provider error and its retry with the same
\* key is reserving again
C8_Witness ==
  \E r, o \in Reqs :
    /\ EndedWith(r, "provider_error")
    /\ req[r].key \in Keys
    /\ req[o].key = req[r].key /\ req[o].kind = "complete"
    /\ req[o].seq > req[r].seq
    /\ req[o].pc = "submit"

\* the order rows whose payload belongs to checkout cid
OrdersOf(table, cid) ==
  {k \in DOMAIN table :
     getOrder(table, k) # Undefined /\ getOrder(table, k)[1].checkout_id = cid}

\* C9: a finalize the provider accepted leaves exactly one order for the
\* session, getOrder on its id returns the checkout payload the finalize
\* froze with the provider's order number attached, and the session read
\* back has status completed.
C9_FinalizeSuccess ==
  [][\A r \in Reqs :
       /\ (Stepped(r) /\ req[r].pc = "persist") =>
            LET oid == OrderIdOf(req[r].cid) IN
            /\ OrdersOf(orders', req[r].cid) = {oid}
            /\ getOrder(orders', oid) =
                 Some([id |-> oid, checkout_id |-> req[r].cid,
                       items |-> req[r].session[1].items,
                       order_number |-> Some(req[r].orderNo)])
       /\ (Stepped(r) /\ req[r].pc = "complete") =>
            LET got == getCheckoutSession(checkouts', req[r].cid) IN
            /\ got # Undefined
            /\ got[1].status = "completed"
            /\ got[1].items = req[r].session[1].items
            /\ checkouts'[req[r].cid].status = "completed"
            /\ OrdersOf(orders', req[r].cid) = {OrderIdOf(req[r].cid)}]_vars

\* a finalize succeeded: the order is stored and the session is completed
C9_Witness ==
  \E r \in Reqs :
    /\ req[r].pc = "done" /\ req[r].kind = "complete" /\ ~req[r].replayed
    /\ req[r].response.status = 200
    /\ getOrder(orders, OrderIdOf(req[r].cid)) # Undefined
    /\ getOrder(orders, OrderIdOf(req[r].cid))[1].order_number = Some(req[r].orderNo)
    /\ getCheckoutSession(checkouts, req[r].cid)[1].status = "completed"

\* C10: once the stored status of a session is completed, every later
\* mutation attempt on it is rejected and no save changes its status or
\* payload.
C10_CompletedIsTerminal ==
  [][\A c \in DOMAIN checkouts :
       checkouts[c].status = "completed" =>
         /\ checkouts'[c] = checkouts[c]
         /\ \A r \in Reqs :
              (Stepped(r) /\ req[r].pc = "load" /\ req[r].cid = c) =>
                ErrorOf(req'[r].response) = "checkout_completed"]_vars

\* handler h took its saveOrder step
OrderSaved(h) == osv[h].pc = "save" /\ osv'[h].pc = "done"

\* the fields of an order that an update may not touch: the frozen checkout
\* snapshot and the provider's order number
FrozenOrderFields == {"checkout_id", "items", "order_number"}

\* C11: updateOrder changes only the post-purchase fields: the frozen checkout
\* snapshot and the provider-assigned order number of the stored order are
\* the same after the update as before, whatever the request body holds.
C11_UpdateKeepsSnapshot ==
  [][\A h \in Handlers :
       OrderSaved(h) =>
         \A k \in FrozenOrderFields :
           Prop(getOrder(orders', osv[h].id)[1], k)
             = Prop(getOrder(orders, osv[h].id)[1], k)]_vars

\* C12: updateOrder on an id without a stored order ends with 'Order not
\* found' and creates no order: the stored order ids stay the same.
C12_UpdateMissingOrder ==
  [][\A h \in Handlers :
       (/\ osv[h].pc # "done" /\ osv'[h].pc = "done"
        /\ osv[h].op = "PUT"
        /\ ~HasRow(orders, osv[h].id)) =>
         /\ osv'[h].outcome = JsonResponse([error |-> "Order not found"], 404)
         /\ DOMAIN orders' = DOMAIN orders]_vars

\* C13: a failure of logRequest never fails the primary operation: getOrder
\* and updateOrder still end with the outcome of the operation itself, the
\* order (200) or 'Order not found' (404).
C13_AuditFailureDoesNotBlock ==
  \A h \in Handlers :
    osv[h].pc = "done" => osv[h].outcome.status \in {200, 404}

\* the response of request r is ready to leave or has left
Answered(r) == req[r].pc \in {"respond", "done"}

NextOnProduct(i, j) ==
  /\ i < j
  /\ ledgerLog[j].p = ledgerLog[i].p
  /\ \A k \in (i + 1) .. (j - 1) : ledgerLog[k].p # ledgerLog[i].p

\* statement j is releaseStock with the product and quantity of statement i
ReleaseOf(i, j) ==
  /\ ledgerLog[j].op = "release"
  /\ ledgerLog[j].q = ledgerLog[i].q
  /\ NextOnProduct(i, j)

\* C15: a successful reserveStock(p, q) followed by releaseStock(p, q), with
\* no other statement on p between them, leaves p's quantity at its value
\* before the reservation.
C15_ReserveReleaseRoundTrip ==
  \A i, j \in 1 .. Len(ledgerLog) :
    (/\ ledgerLog[i].op = "reserve" /\ ledgerLog[i].ok
     /\ ReleaseOf(i, j)) =>
      /\ ledgerLog[j].after = ledgerLog[i].before
      /\ (\A k \in (j + 1) .. Len(ledgerLog) : ledgerLog[k].p # ledgerLog[i].p)
           => getInventory(inventory, ledgerLog[i].p) = ledgerLog[i].before

\* a reservation of one unit took the quantity down and its release took it
\* back up
C15_Witness ==
  \E i, j \in 1 .. Len(ledgerLog) :
    /\ ledgerLog[i].op = "reserve" /\ ledgerLog[i].ok /\ ledgerLog[i].q = 1
    /\ ReleaseOf(i, j)
    /\ ledgerLog[i].after # ledgerLog[i].before
    /\ ledgerLog[j].after = ledgerLog[i].before

\* C16: releaseStock(p, q) on a product with an inventory row adds exactly q
\* on every call and checks no reservation: a second release of the same
\* reservation, or a release after a reserveStock that returned false, leaves
\* the quantity q above its value before the reservation.
C16_ReleaseUnconditional ==
  /\ \A j \in 1 .. Len(ledgerLog) :
       (ledgerLog[j].op = "release" /\ ledgerLog[j].before # Undefined) =>
         ledgerLog[j].after = Some(ledgerLog[j].before[1] + ledgerLog[j].q)
  /\ \A i, j, k \in 1 .. Len(ledgerLog) :
       (/\ ledgerLog[i].op = "reserve" /\ ledgerLog[i].ok
        /\ ReleaseOf(i, j)
        /\ ReleaseOf(j, k)) =>
         ledgerLog[k].after = Some(ledgerLog[i].before[1] + ledgerLog[i].q)
  /\ \A i, j \in 1 .. Len(ledgerLog) :
       (/\ ledgerLog[i].op = "reserve" /\ ~ledgerLog[i].ok
        /\ ledgerLog[i].before # Undefined
        /\ ReleaseOf(i, j)) =>
         ledgerLog[j].after = Some(ledgerLog[i].before[1] + ledgerLog[i].q)

\* one unit was reserved and released twice: the quantity ends one above its
\* value before the reservation
C16_Witness ==
  \E i, j, k \in 1 .. Len(ledgerLog) :
    /\ ledgerLog[i].op = "reserve" /\ ledgerLog[i].ok /\ ledgerLog[i].q = 1
    /\ ReleaseOf(i, j)
    /\ ReleaseOf(j, k)
    /\ inventory[ledgerLog[i].p] = ledgerLog[i].before[1] + 1

\* the arguments of the latest save on a primary key of a table
Saved(table, k) == HasRow(supplied, <<table, k>>)
LastSaved(table, k) == supplied[<<table, k>>]

\* C17 as stated: getCheckoutSession(id) returns exactly the payload of the
\* latest saveCheckout on id, and undefined for an id that was never saved.
C17_SaveGetExact ==
  lastCall.op = "getCheckoutSession" =>
    lastCall.result =
      (IF Saved("checkouts", lastCall.id)
         THEN Some(LastSaved("checkouts", lastCall.id).payload)
         ELSE Undefined)

\* object got has the properties of object payload that hold a value, with
\* the same values, and no other property
SameJson(got, payload) ==
  /\ DOMAIN got \subseteq DOMAIN payload
  /\ \A k \in DOMAIN got : got[k] = payload[k]
  /\ \A k \in DOMAIN payload \ DOMAIN got :
       k \in OptionalKeys /\ payload[k] = Undefined

\* C17 (amended): getCheckoutSession(id) returns the payload of the latest
\* saveCheckout on id without its properties that held undefined (the same
\* object when no property held undefined), and undefined for an id that was
\* never saved.
C17_SaveGetJson ==
  lastCall.op = "getCheckoutSession" =>
    IF Saved("checkouts", lastCall.id)
      THEN /\ lastCall.result # Undefined
           /\ SameJson(lastCall.result[1],
                       LastSaved("checkouts", lastCall.id).payload)
           /\ (\A k \in DOMAIN LastSaved("checkouts", lastCall.id).payload :
                 k \notin OptionalKeys)
                => lastCall.result =
                     Some(LastSaved("checkouts", lastCall.id).payload)
      ELSE lastCall.result = Undefined

\* a session saved with a buyer and then with another payload was read back
\* as the payload of the latest save
C17_Witness ==
  /\ lastCall.op = "getCheckoutSession"
  /\ Saved("checkouts", lastCall.id)
  /\ "buyer" \in LastSaved("checkouts", lastCall.id).earlier
  /\ lastCall.result = Some([id |-> "C1", items |-> <<>>])

\* C18: saveCheckout is an upsert that replaces the whole row: after any
\* saves on an id the one stored session of that id has the status and the
\* payload of the latest save, and no property that the latest payload lacks.
C18_UpsertFullReplacement ==
  \A id \in StoreIds :
    Saved("checkouts", id) =>
      /\ HasRow(checkouts, id)
      /\ checkouts[id].status = LastSaved("checkouts", id).status
      /\ getCheckoutSession(checkouts, id) # Undefined
      /\ SameJson(getCheckoutSession(checkouts, id)[1],
                  LastSaved("checkouts", id).payload)
      /\ \A k \in LastSaved("checkouts", id).earlier
                   \ DOMAIN LastSaved("checkouts", id).payload :
           k \notin DOMAIN getCheckoutSession(checkouts, id)[1]

\* a session saved with a buyer was saved again as completed with a payload
\* without buyer: the stored session is the second payload, without buyer
C18_Witness ==
  /\ lastCall.op = "saveCheckout"
  /\ "buyer" \in LastSaved("checkouts", lastCall.id).earlier
  /\ checkouts[lastCall.id].status = "completed"
  /\ getCheckoutSession(checkouts, lastCall.id) = Some([id |-> "C1", items |-> <<>>])

\* what getIdempotencyRecord(k) is to return given the saves so far
ExpectedRecord(k) ==
  IF Saved("idempotency_keys", k)
    THEN Some([key |-> k,
               request_hash |-> LastSaved("idempotency_keys", k).request_hash,
               response_status |-> LastSaved("idempotency_keys", k).response_status,
               response_body |-> LastSaved("idempotency_keys", k).response_body])
    ELSE Undefined

\* C19: getIdempotencyRecord(k) returns undefined until k is recorded, then
\* the key with the hash, status and body of the latest save on k; a save
\* on one key leaves the record of every other key as it was.
C19_IdempotencyRecordRoundTrip ==
  /\ \A k \in StoreKeys :
       getIdempotencyRecord(idempotency_keys, k) = ExpectedRecord(k)
  /\ lastCall.op = "getIdempotencyRecord" =>
       lastCall.result = ExpectedRecord(lastCall.id)
  /\ DOMAIN idempotency_keys \subseteq StoreKeys

\* k1 was recorded twice, with a different hash, status and body, and read
\* back as the second record, while k2 keeps its own record
C19_Witness ==
  /\ lastCall.op = "getIdempotencyRecord"
  /\ lastCall.id = "k1"
  /\ lastCall.result = Some([key |-> "k1", request_hash |-> "h2",
                             response_status |-> 409, response_body |-> "no"])
  /\ getIdempotencyRecord(idempotency_keys, "k2") =
       Some([key |-> "k2", request_hash |-> "h1",
             response_status |-> 200, response_body |-> "ok"])

\* the data column of the row of id k does not parse
Corrupt(table, k) == HasRow(table, k) /\ ParseThrows(table[k].data)

\* C20: getCheckoutSession on a row whose data does not parse returns
\* undefined, it does not throw, and the row stays as it is; likewise getOrder.
C20_CorruptReadsAbsent ==
  /\ [][lastCall'.op \in {"getCheckoutSession", "getOrder"} =>
          (checkouts' = checkouts /\ orders' = orders)]_vars
  /\ [](/\ (lastCall.op = "getCheckoutSession"
              /\ Corrupt(checkouts, lastCall.id)) => lastCall.result = Undefined
        /\ (lastCall.op = "getOrder"
              /\ Corrupt(orders, lastCall.id)) => lastCall.result = Undefined)

\* a corrupt session row was read as undefined and is still there
C20_Witness ==
  /\ lastCall.op = "getCheckoutSession"
  /\ Corrupt(checkouts, lastCall.id)
  /\ lastCall.result = Undefined

\* C23: a successful updateOrder(id, body) stores under key id an order whose
\* id field is id, whatever id the body carried, and writes no other row: the
\* id of every stored order is the key of its row.
C23_StoredIdIsKey ==
  /\ [][\A h \in Handlers :
          OrderSaved(h) =>
            /\ osv'[h].outcome.status = 200
            /\ getOrder(orders', osv[h].id) # Undefined
            /\ getOrder(orders', osv[h].id)[1].id = osv[h].id
            /\ DOMAIN orders' = DOMAIN orders
            /\ \A k \in DOMAIN orders \ {osv[h].id} : orders'[k] = orders[k]]_vars
  /\ [](\A k \in DOMAIN orders :
          getOrder(orders, k) # Undefined => getOrder(orders, k)[1].id = k)

\* an update whose body carried the id of another order has succeeded, and
\* the order stored under the key of the request carries that key as id
C23_Witness ==
  \E h \in Handlers :
    /\ osv[h].pc = "done" /\ osv[h].op = "PUT"
    /\ osv[h].outcome.status = 200
    /\ Prop(osv[h].body, "id") # Undefined
    /\ osv[h].body.id # osv[h].id
    /\ getOrder(orders, osv[h].id) # Undefined
    /\ getOrder(orders, osv[h].id)[1].id = osv[h].id
    /\ getOrder(orders, osv[h].id)[1].checkout_id = osv[h].body.checkout_id

\* the four tables the lookups read
Tables == <<inventory, checkouts, orders, idempotency_keys>>

\* a lookup has resolved in this step
LookupResolved ==
  /\ lastCall' # lastCall
  /\ lastCall'.op \in {"getInventory", "getCheckoutSession", "getOrder",
                       "getIdempotencyRecord"}

\* the key of the lookup that resolves in this step has no row in its table
LookupMisses ==
  CASE lastCall'.op = "getInventory" -> ~HasRow(inventory, lastCall'.id)
    [] lastCall'.op = "getCheckoutSession" -> ~HasRow(checkouts, lastCall'.id)
    [] lastCall'.op = "getOrder" -> ~HasRow(orders, lastCall'.id)
    [] lastCall'.op = "getIdempotencyRecord" ->
         ~HasRow(idempotency_keys, lastCall'.id)

\* handler h serving GET /orders/:id took a step
GetOrderStepped(h) == osv[h].op = "GET" /\ osv'[h] # osv[h] /\ osv[h].pc # "done"

\* C21: getInventory, getCheckoutSession, getOrder and getIdempotencyRecord
\* leave the inventory, checkouts, orders and idempotency_keys tables as they
\* are and return undefined for a key without a row; when the lookup of
\* OrderService.getOrder returns undefined the handler answers 404 'Order not
\* found', and the handler changes none of the four tables either.
C21_LookupsArePureReads ==
  /\ [][LookupResolved =>
          /\ Tables' = Tables
          /\ LookupMisses => lastCall'.result = Undefined]_vars
  /\ [][\A h \in Handlers :
          GetOrderStepped(h) =>
            /\ Tables' = Tables
            /\ (osv[h].pc = "get" /\ getOrder(orders, osv[h].id) = Undefined) =>
                 osv'[h].outcome =
                   JsonResponse([error |-> "Order not found"], 404)]_vars

\* GET /orders/:id on an id without an order was answered 'Order not found',
\* and getInventory on a product without a row returned undefined, over an
\* inventory that holds another product and is as it was at the start
C21_Witness ==
  /\ osv["h1"].pc = "done" /\ osv["h1"].op = "GET"
  /\ ~HasRow(orders, osv["h1"].id)
  /\ osv["h1"].outcome = JsonResponse([error |-> "Order not found"], 404)
  /\ lastCall.op = "getInventory"
  /\ ~HasRow(inventory, lastCall.id)
  /\ lastCall.result = Undefined
  /\ inventory # <<>>
  /\ inventory = inv0

\* no saveCheckout of id is in flight
Quiet(id) ==
  \A c \in Callers : ~(call[c].op = "saveCheckout" /\ call[c].id = id)

\* the row of id holds the status and the payload of the call with args
RowIsOf(id, args) ==
  /\ checkouts[id].status = args.status
  /\ getCheckoutSession(checkouts, id) # Undefined
  /\ SameJson(getCheckoutSession(checkouts, id)[1], args.payload)

\* C22: however concurrent saveCheckout calls on one checkoutId interleave,
\* the status and the payload of the stored row are those of one and the
\* same call, and once no call is in flight the row holds the arguments of
\* the call whose statement the storage ran last.
C22_ConcurrentSavesAtomic ==
  \A id \in SaveIds :
    /\ HasRow(checkouts, id) =>
         /\ Saved("checkouts", id)
         /\ \E args \in SaveArgs : RowIsOf(id, args)
    /\ (Saved("checkouts", id) /\ Quiet(id)) =>
         /\ HasRow(checkouts, id)
         /\ RowIsOf(id, LastSaved("checkouts", id))

\* two saves of one id with different arguments were in flight together; the
\* storage ran both, and the row holds the arguments of the one it ran last
C22_Witness ==
  \E id \in SaveIds :
    /\ Saved("checkouts", id) /\ Quiet(id)
    /\ LastSaved("checkouts", id).prev # Undefined
    /\ LastSaved("checkouts", id).prev[1].racing
    /\ LastSaved("checkouts", id).prev[1].status # LastSaved("checkouts", id).status
    /\ RowIsOf(id, LastSaved("checkouts", id))

====
